---- MODULE Spec2Model ----
(***************************************************************************)
(* State-machine model of src/agent.py: the Tool registry of class Agent   *)
(* (add_tool, the tool_names map filled by the entry point) and the        *)
(* bounded request / classify / dispatch loop of Agent.run.                *)
(*                                                                         *)
(* Python values are modelled with their type: a str is PyStr(s), a list   *)
(* is PyList(xs), so that values of different Python types are different   *)
(* values of the model.  The model client and the tool functions are the   *)
(* environment: a model call either raises or returns a response with any  *)
(* stop reason and any content; a tool function either returns a value or  *)
(* raises an Exception.                                                    *)
(***************************************************************************)
EXTENDS Integers, Sequences, FiniteSets, TLC

VARIABLES
    tools,           \* self.tools: list of Tool objects
    tool_names,      \* self.tool_names: dict name -> Tool
    max_iterations,  \* self.max_iterations
    pc,              \* position of the caller / of run
    i,               \* loop variable of `for i in range(self.max_iterations)`
    messages,        \* local `messages` of run (the transcript)
    run_tools,       \* local `tools` of run (the schemas sent to the model)
    response,        \* local `response` of run
    block_idx,       \* position of `for block in response.content`
    tool_result,     \* local `tool_result` of run
    result,          \* value returned by run
    requests,        \* history: the arguments of every messages.create call
    responses,       \* history: every response messages.create returned
    calls,           \* history: every invocation of a tool function
    next_id          \* environment: identifiers the model has handed out

vars == <<tools, tool_names, max_iterations, pc, i, messages, run_tools,
          response, block_idx, tool_result, result, requests, responses, calls,
          next_id>>

----------------------------------------------------------------------------
(* Bounds of the model *)

MaxIter == 2
MaxBlocks == 2
MaxTools == 2

----------------------------------------------------------------------------
(* Python values *)

PyStr(s) == [py |-> "str", v |-> s]
PyList(xs) == [py |-> "list", v |-> xs]
None == [py |-> "NoneType", v |-> "None"]

\* the local `response` before the first assignment
NoResponse == [stop_reason |-> "unset", content |-> <<>>]

\* Agent.__init__: self.max_iterations = 15
DefaultMaxIterations == 15

\* Tool.__init__: the attributes the loop uses (description and parameters
\* are carried in one field each)
Tool(name, description, function) ==
    [name |-> name, description |-> description, parameters |-> "object",
     function |-> function]

\* Tool objects the caller may construct; two of them share a name.
ToolPool ==
    { Tool("read_file", "Reads the contents of a file", "read_file"),
      Tool("write_file", "Writes to file", "write_to_file"),
      Tool("read_file", "Reads a file, second version", "read_file_v2") }

\* Tool.to_anthropic_format
to_anthropic_format(t) ==
    [name |-> t.name, description |-> t.description,
     input_schema |-> t.parameters]

\* mutant: the schemas are listed from the last registered tool to the first
Schemas_Reversed(ts) ==
    [k \in 1..Len(ts) |-> to_anthropic_format(ts[Len(ts) + 1 - k])]

\* [t.to_anthropic_format() for t in self.tools]
Schemas(ts) == [k \in 1..Len(ts) |-> to_anthropic_format(ts[k])]

----------------------------------------------------------------------------
(* The environment's alphabets *)

UserMessages == {"clone the repo"}
StopReasons == {"end_turn", "tool_use", "max_tokens", "stop_sequence"}
\* names the model may put in a ToolUse block: one spelled as registered,
\* one differing from a registered name in case only
RequestNames == {"read_file", "Write_File"}
Inputs == {[file_path |-> "a.txt"], [file_path |-> "b.txt"]}
ReturnValues == {"file contents"}
ExcMessages == {"No such file"}

TextBlock == [type |-> "text", text |-> "ok"]
ToolUseShape(n, inp) == [type |-> "tool_use", name |-> n, input |-> inp]
BlockShapes ==
    {TextBlock} \cup {ToolUseShape(n, inp) : n \in RequestNames, inp \in Inputs}

\* the model hands out a fresh identifier with every ToolUse block
Stamp(shapes, base) ==
    [k \in 1..Len(shapes) |->
        IF shapes[k].type = "tool_use"
        THEN [type |-> "tool_use", id |-> base + k,
              name |-> shapes[k].name, input |-> shapes[k].input]
        ELSE shapes[k]]

ShapeSeqs == UNION {[1..n -> BlockShapes] : n \in 0..MaxBlocks}

\* isinstance(block, ToolUseBlock)
IsToolUse(block) == block.type = "tool_use"

\* outcomes of one call of a tool function
Outcomes ==
    {[kind |-> "return", value |-> v] : v \in ReturnValues}
    \cup {[kind |-> "raise", value |-> m] : m \in ExcMessages}

\* no tool function was called
NoOutcome == [kind |-> "none", value |-> ""]

----------------------------------------------------------------------------
(* Pure pieces of Agent.run *)

\* the first entry of the transcript (line 46)
UserMsg(text) == [role |-> "user", content |-> PyStr(text)]

\* messages.append({"role": "assistant", "content": response.content})
AssistantMsg(resp) == [role |-> "assistant", content |-> PyList(resp.content)]

\* mutant: the nudge goes in with the assistant's role
NudgeMsg_Assistant ==
    [role |-> "assistant",
     content |-> PyStr("Your response was cut off. Please continue.")]

\* the message appended on stop reason max_tokens
NudgeMsg ==
    [role |-> "user",
     content |-> PyStr("Your response was cut off. Please continue.")]

\* mutant: the results go in under the role "assistant"
ToolResultMsg_AssistantRole(tr) == [role |-> "assistant", content |-> PyList(tr)]

\* mutant: the results are collected in reverse (insert(0, ..) for append)
ToolResultMsg_Reversed(tr) ==
    [role |-> "user",
     content |-> PyList([k \in 1..Len(tr) |-> tr[Len(tr) + 1 - k]])]

\* messages.append({"role": "user", "content": tool_result})
ToolResultMsg(tr) == [role |-> "user", content |-> PyList(tr)]

\* mutant: the function falls off its end without a return statement
Sentinel_None == None

\* the value returned when the for loop runs out
Sentinel == PyStr("Error: Max iterations reached.")

\* mutant: only the text blocks are returned
EndTurnReturn_TextOnly(resp) ==
    PyList(SelectSeq(resp.content, LAMBDA b : b.type = "text"))

\* `return response.content`
EndTurnReturn(resp) == PyList(resp.content)

\* `target_tool in self.tool_names`
Registered(name, names) == name \in DOMAIN names

\* the except branch: f"Error executing tool: {e}"
ExecError(msg) == "Error executing tool: " \o msg

\* mutant: the message leaves the name out
NotFound_NoName(name) == "Error: Tool not found"

\* the else branch: f"Error: Tool '{target_tool}' not found"
NotFound(name) == "Error: Tool '" \o name \o "' not found"

\* lines 73-81: the string `res` for one ToolUse block, given the outcome of
\* the tool function in case it is called
Dispatch(block, names, outcome) ==
    IF Registered(block.name, names)
    THEN IF outcome.kind = "return"
         THEN outcome.value             \* Tool.execute: str(self.function(..))
         ELSE ExecError(outcome.value)
    ELSE NotFound(block.name)

\* lines 82-86
ToolResultBlock(block, res) ==
    [type |-> "tool_result", tool_use_id |-> block.id, content |-> res]

\* the record of one tool function invocation (Tool.execute, line 30)
Call(block, names, outcome) ==
    [id |-> block.id, function |-> names[block.name].function,
     input |-> block.input, outcome |-> outcome.kind, value |-> outcome.value]

\* mutant: the blocks are gone through from the last to the first
BlockAt_Reversed(content, idx) == content[Len(content) + 1 - idx]

\* `for block in response.content`: the block of the pass number idx
BlockAt(content, idx) == content[idx]

\* mutant: no try/except around the call, the exception leaves run
AfterCall_Propagates(outcome) ==
    IF outcome.kind = "raise" THEN "raised" ELSE "dispatch"

\* lines 75-79: `except Exception` catches what the tool function raises, so
\* the for loop over the blocks goes on after either outcome
AfterCall(outcome) == "dispatch"

\* mutant: one iteration too many (range(self.max_iterations + 1))
InRange_OffByOne(n, max) == n <= max

\* range(self.max_iterations) still has a value for i
InRange(n, max) == n < max

----------------------------------------------------------------------------
(* Initial state: after Agent() *)

Init ==
    /\ tools = <<>>
    /\ tool_names = [n \in {} |-> None]
    /\ max_iterations = DefaultMaxIterations
    /\ pc = "setup"
    /\ i = 0
    /\ messages = <<>>
    /\ run_tools = <<>>
    /\ response = NoResponse
    /\ block_idx = 0
    /\ tool_result = <<>>
    /\ result = None
    /\ requests = <<>>
    /\ responses = <<>>
    /\ calls = <<>>
    /\ next_id = 0

----------------------------------------------------------------------------
(* The registry: operations of the caller before run *)

\* Agent.add_tool: self.tools.append(tool)
AddToolList(ts, t) == Append(ts, t)

\* Agent.add_tool leaves self.tool_names as it is
AddToolNames(names, t) == names

\* mutant: a name that is taken keeps its tool (setdefault for assignment)
SetName_KeepFirst(names, t) ==
    [n \in DOMAIN names \cup {t.name} |->
        IF n \in DOMAIN names THEN names[n] ELSE t]

\* agent.tool_names[tool.name] = tool
SetName(names, t) ==
    [n \in DOMAIN names \cup {t.name} |-> IF n = t.name THEN t ELSE names[n]]

RunLocals == <<i, messages, run_tools, response, block_idx, tool_result,
               result, requests, responses, calls, next_id>>

\* a caller that registers a tool with add_tool alone
AddTool ==
    /\ pc = "setup"
    /\ Len(tools) < MaxTools
    /\ \E t \in ToolPool :
        /\ tools' = AddToolList(tools, t)
        /\ tool_names' = AddToolNames(tool_names, t)
    /\ UNCHANGED <<max_iterations, pc, RunLocals>>

\* the entry point's loop body: agent.add_tool(tool) and then
\* agent.tool_names[tool.name] = tool
MainRegister ==
    /\ pc = "setup"
    /\ Len(tools) < MaxTools
    /\ \E t \in ToolPool :
        /\ tools' = AddToolList(tools, t)
        /\ tool_names' = SetName(AddToolNames(tool_names, t), t)
    /\ UNCHANGED <<max_iterations, pc, RunLocals>>

\* max_iterations is a plain attribute: the caller may assign it
SetMaxIterations ==
    /\ pc = "setup"
    /\ max_iterations = DefaultMaxIterations
    /\ \E n \in 0..MaxIter : max_iterations' = n
    /\ UNCHANGED <<tools, tool_names, pc, RunLocals>>

----------------------------------------------------------------------------
(* Agent.run *)

\* lines 46-47: the call of run and its two first statements
StartRun ==
    /\ pc = "setup"
    /\ max_iterations <= MaxIter
    /\ \E um \in UserMessages : messages' = <<UserMsg(um)>>
    /\ run_tools' = Schemas(tools)
    /\ i' = 0
    /\ pc' = "loop"
    /\ UNCHANGED <<tools, tool_names, max_iterations, response, block_idx,
                   tool_result, result, requests, responses, calls, next_id>>

\* lines 49-55: the loop has another iteration; the request goes out
IssueRequest ==
    /\ pc = "loop"
    /\ InRange(i, max_iterations)
    /\ requests' = Append(requests, [tools |-> run_tools, messages |-> messages])
    /\ pc' = "awaiting"
    /\ UNCHANGED <<tools, tool_names, max_iterations, i, messages, run_tools,
                   response, block_idx, tool_result, result, responses, calls,
                   next_id>>

\* line 100: the loop ran out
Exhausted ==
    /\ pc = "loop"
    /\ ~InRange(i, max_iterations)
    /\ result' = Sentinel
    /\ pc' = "returned"
    /\ UNCHANGED <<tools, tool_names, max_iterations, i, messages, run_tools,
                   response, block_idx, tool_result, requests, responses,
                   calls, next_id>>

\* mutant: the exception is swallowed and the iteration tried again
OnModelCallError_Retry == "loop"

\* no try/except encloses messages.create: the exception leaves run
OnModelCallError == "raised"

\* lines 50-55: the model client call raises; nothing in run catches it
ModelCallFails ==
    /\ pc = "awaiting"
    /\ pc' = OnModelCallError
    /\ UNCHANGED <<tools, tool_names, max_iterations, i, messages, run_tools,
                   response, block_idx, tool_result, result, requests,
                   responses, calls, next_id>>

\* mutant: the transcript is rebuilt from the latest turn (= for .append)
AfterResponse_DropsHistory(msgs, resp) ==
    IF resp.stop_reason = "max_tokens"
    THEN <<AssistantMsg(resp), NudgeMsg>>
    ELSE <<AssistantMsg(resp)>>

\* mutant: `else` for `elif response.stop_reason == "max_tokens"`
AfterResponse_ElseNudge(msgs, resp) ==
    IF resp.stop_reason = "tool_use"
    THEN msgs \o <<AssistantMsg(resp)>>
    ELSE msgs \o <<AssistantMsg(resp), NudgeMsg>>

\* what run appends on a response that is not end_turn, before any dispatch
\* (lines 63-66 and 95-99)
AfterResponse(msgs, resp) ==
    IF resp.stop_reason = "max_tokens"
    THEN msgs \o <<AssistantMsg(resp), NudgeMsg>>
    ELSE msgs \o <<AssistantMsg(resp)>>

\* the position run takes after classifying a response
Classify(resp) ==
    IF resp.stop_reason = "end_turn" THEN "returned"
    ELSE IF resp.stop_reason = "tool_use" THEN "dispatch"
    ELSE "loop"

\* lines 50-70 and 93-99: the model call returns; the response is classified
ReceiveResponse ==
    /\ pc = "awaiting"
    /\ \E sr \in StopReasons, shapes \in ShapeSeqs :
        LET resp == [stop_reason |-> sr, content |-> Stamp(shapes, next_id)]
            to == Classify(resp)
        IN  /\ response' = resp
            /\ responses' = Append(responses, resp)
            /\ next_id' = next_id + Len(shapes)
            /\ pc' = to
            /\ result' = IF to = "returned" THEN EndTurnReturn(resp) ELSE result
            /\ messages' = IF to = "returned" THEN messages
                           ELSE AfterResponse(messages, resp)
            /\ i' = IF to = "loop" THEN i + 1 ELSE i
            /\ block_idx' = IF to = "dispatch" THEN 1 ELSE block_idx
            /\ tool_result' = IF to = "dispatch" THEN <<>> ELSE tool_result
    /\ UNCHANGED <<tools, tool_names, max_iterations, run_tools, requests,
                   calls>>

\* lines 71-86: one pass of `for block in response.content`
DispatchBlock ==
    /\ pc = "dispatch"
    /\ block_idx <= Len(response.content)
    /\ LET block == BlockAt(response.content, block_idx)
       IN  IF ~IsToolUse(block)
           THEN UNCHANGED <<tool_result, calls, pc>>
           ELSE IF Registered(block.name, tool_names)
           THEN \E o \in Outcomes :
                   /\ calls' = Append(calls, Call(block, tool_names, o))
                   /\ tool_result' = Append(tool_result,
                          ToolResultBlock(block, Dispatch(block, tool_names, o)))
                   /\ pc' = AfterCall(o)
           ELSE /\ UNCHANGED <<calls, pc>>
                /\ tool_result' = Append(tool_result,
                       ToolResultBlock(block,
                           Dispatch(block, tool_names, NoOutcome)))
    /\ block_idx' = block_idx + 1
    /\ UNCHANGED <<tools, tool_names, max_iterations, i, messages,
                   run_tools, response, result, requests, responses, next_id>>

\* lines 88-91: the for loop over the blocks is over
FinishDispatch ==
    /\ pc = "dispatch"
    /\ block_idx > Len(response.content)
    /\ messages' = Append(messages, ToolResultMsg(tool_result))
    /\ i' = i + 1
    /\ pc' = "loop"
    /\ UNCHANGED <<tools, tool_names, max_iterations, run_tools, response,
                   block_idx, tool_result, result, requests, responses, calls,
                   next_id>>

Next ==
    \/ AddTool
    \/ MainRegister
    \/ SetMaxIterations
    \/ StartRun
    \/ IssueRequest
    \/ Exhausted
    \/ ModelCallFails
    \/ ReceiveResponse
    \/ DispatchBlock
    \/ FinishDispatch

Spec == Init /\ [][Next]_vars

\* the program as the entry point runs it: every tool is registered by
\* add_tool followed by the assignment to tool_names (lines 395-398)
NextMain ==
    \/ MainRegister
    \/ SetMaxIterations
    \/ StartRun
    \/ IssueRequest
    \/ Exhausted
    \/ ModelCallFails
    \/ ReceiveResponse
    \/ DispatchBlock
    \/ FinishDispatch

MainSpec == Init /\ [][NextMain]_vars

----------------------------------------------------------------------------
(* Properties *)

\* the identifiers of the ToolUse blocks of a content, in order of appearance
ToolUseIds(content) ==
    LET tus == SelectSeq(content, LAMBDA b : b.type = "tool_use")
    IN  [k \in 1..Len(tus) |-> tus[k].id]

\* response number n has been followed by another model request
Answered(n) == n \in 1..Len(responses) /\ n < Len(requests)

SentinelValue == [py |-> "str", v |-> "Error: Max iterations reached."]

\* C1: for every response with stop reason tool_use holding k ToolUse blocks,
\* the transcript of the next model request is the transcript of the request
\* before it, followed by the assistant message with the response's content
\* and by exactly one user message holding exactly k tool_result blocks whose
\* tool_use_id values are the ToolUse identifiers in the same order.
C1_ToolResultsAnswerToolUses ==
    \A n \in 1..Len(responses) :
        (responses[n].stop_reason = "tool_use" /\ Answered(n)) =>
            LET before == requests[n].messages
                after == requests[n + 1].messages
                ids == ToolUseIds(responses[n].content)
            IN  /\ Len(after) = Len(before) + 2
                /\ SubSeq(after, 1, Len(before)) = before
                /\ after[Len(before) + 1].role = "assistant"
                /\ after[Len(before) + 1].content.py = "list"
                /\ after[Len(before) + 1].content.v = responses[n].content
                /\ after[Len(after)].role = "user"
                /\ after[Len(after)].content.py = "list"
                /\ LET trs == after[Len(after)].content.v
                   IN  /\ Len(trs) = Len(ids)
                       /\ \A k \in 1..Len(trs) :
                            /\ trs[k].type = "tool_result"
                            /\ trs[k].tool_use_id = ids[k]

\* a tool_use response with two ToolUse blocks has been followed by a request
C1_Witness ==
    \E n \in 1..Len(responses) :
        /\ responses[n].stop_reason = "tool_use"
        /\ Answered(n)
        /\ Len(ToolUseIds(responses[n].content)) = 2

\* C2: run never issues more than max_iterations model requests, and when it
\* has returned without any response of stop reason end_turn it has issued
\* exactly max_iterations requests and returned the sentinel string.
C2_AtMostMaxIterationsRequests ==
    /\ Len(requests) <= max_iterations
    /\ (pc = "loop" => Len(requests) = i)
    /\ (/\ pc = "returned"
        /\ \A n \in 1..Len(responses) : responses[n].stop_reason # "end_turn")
       => /\ Len(requests) = max_iterations
          /\ result = SentinelValue

\* a run of two iterations, one tool_use and one max_tokens, ran out
C2_Witness ==
    /\ pc = "returned"
    /\ max_iterations = 2
    /\ Len(requests) = 2
    /\ Len(responses) = 2
    /\ responses[1].stop_reason = "tool_use"
    /\ responses[2].stop_reason = "max_tokens"
    /\ result = SentinelValue

\* the ToolUse blocks of a content
ToolUseBlocks(content) == SelectSeq(content, LAMBDA b : b.type = "tool_use")

\* the ToolUse blocks of the current response the for loop has gone past
Handled ==
    IF pc = "dispatch"
    THEN ToolUseBlocks(SubSeq(response.content, 1, block_idx - 1))
    ELSE <<>>

\* a tool function has been invoked for the ToolUse block b
Invoked(b) == \E c \in 1..Len(calls) : calls[c].id = b.id

\* the tool_result entries of trs that answer the ToolUse block b
ResultsFor(trs, b) ==
    {k \in 1..Len(trs) : trs[k].tool_use_id = b.id}

\* the last message of the transcript sent with request number n
LastSent(n) == requests[n].messages[Len(requests[n].messages)]

\* C3: a ToolUse block naming a tool that was registered with add_tool is
\* found by the name lookup and the function of a tool registered under that
\* name is invoked with the block's input.
C3_AddToolMakesDispatchable ==
    \A j \in 1..Len(Handled) :
        LET b == Handled[j]
        IN  (\E k \in 1..Len(tools) : tools[k].name = b.name) =>
                \E c \in 1..Len(calls) :
                    /\ calls[c].id = b.id
                    /\ calls[c].input = b.input
                    /\ \E k \in 1..Len(tools) :
                        /\ tools[k].name = b.name
                        /\ tools[k].function = calls[c].function

\* C4: a ToolUse block whose name is no key of tool_names (compared exactly)
\* gets the tool_result "Error: Tool '<name>' not found" and no tool function
\* is invoked for it; the result is in the transcript of the next request,
\* and a run that returns after such a block has used up its budget.
C4_UnknownToolGivesNotFound ==
    /\ \A j \in 1..Len(Handled) :
        LET b == Handled[j]
        IN  b.name \notin DOMAIN tool_names =>
                /\ ~Invoked(b)
                /\ ResultsFor(tool_result, b) # {}
                /\ \A k \in ResultsFor(tool_result, b) :
                    tool_result[k].content
                        = "Error: Tool '" \o b.name \o "' not found"
    /\ \A n \in 1..Len(responses) :
        responses[n].stop_reason = "tool_use" =>
            \A j \in 1..Len(ToolUseBlocks(responses[n].content)) :
                LET b == ToolUseBlocks(responses[n].content)[j]
                IN  b.name \notin DOMAIN tool_names =>
                        /\ ~Invoked(b)
                        /\ pc # "raised" \/ Len(requests) > n
                        /\ Answered(n) =>
                            /\ LastSent(n + 1).role = "user"
                            /\ LastSent(n + 1).content.py = "list"
                            /\ \E k \in 1..Len(LastSent(n + 1).content.v) :
                                LastSent(n + 1).content.v[k]
                                  = [type |-> "tool_result",
                                     tool_use_id |-> b.id,
                                     content |-> "Error: Tool '" \o b.name
                                                 \o "' not found"]
                        /\ (pc = "returned" /\ n = Len(responses)) =>
                            /\ Len(requests) = max_iterations
                            /\ result = SentinelValue

\* write_file is registered, the model asked for Write_File, and the next
\* request has gone out
C4_Witness ==
    /\ "write_file" \in DOMAIN tool_names
    /\ \E n \in 1..Len(responses) :
        /\ responses[n].stop_reason = "tool_use"
        /\ Answered(n)
        /\ \E j \in 1..Len(responses[n].content) :
            /\ responses[n].content[j].type = "tool_use"
            /\ responses[n].content[j].name = "Write_File"

\* C5: when a tool function raises, the tool_result of its ToolUse block is
\* "Error executing tool: <message>", run is not left by that exception, the
\* other ToolUse blocks of the response get their results and the next
\* request carries them all.
C5_ToolExceptionBecomesResult ==
    /\ pc = "raised" => Len(responses) < Len(requests)
    /\ \A j \in 1..Len(Handled) :
        LET b == Handled[j]
        IN  \A c \in 1..Len(calls) :
                (calls[c].id = b.id /\ calls[c].outcome = "raise") =>
                    /\ ResultsFor(tool_result, b) # {}
                    /\ \A k \in ResultsFor(tool_result, b) :
                        tool_result[k].content
                            = "Error executing tool: " \o calls[c].value
    /\ \A n \in 1..Len(responses), c \in 1..Len(calls) :
        (/\ responses[n].stop_reason = "tool_use"
         /\ Answered(n)
         /\ calls[c].outcome = "raise"
         /\ \E j \in 1..Len(responses[n].content) :
                /\ responses[n].content[j].type = "tool_use"
                /\ responses[n].content[j].id = calls[c].id)
        => /\ LastSent(n + 1).content.py = "list"
           /\ Len(LastSent(n + 1).content.v)
                = Len(ToolUseBlocks(responses[n].content))
           /\ \E k \in 1..Len(LastSent(n + 1).content.v) :
                LastSent(n + 1).content.v[k]
                  = [type |-> "tool_result", tool_use_id |-> calls[c].id,
                     content |-> "Error executing tool: " \o calls[c].value]

\* the first of two tool calls of one response raised, the second was still
\* made, and the next request has gone out
C5_Witness ==
    \E n \in 1..Len(responses) :
        /\ responses[n].stop_reason = "tool_use"
        /\ Answered(n)
        /\ Len(ToolUseBlocks(responses[n].content)) = 2
        /\ \E c \in 1..Len(calls) :
            /\ c + 1 \in 1..Len(calls)
            /\ calls[c].outcome = "raise"
            /\ calls[c].id = ToolUseBlocks(responses[n].content)[1].id
            /\ calls[c + 1].id = ToolUseBlocks(responses[n].content)[2].id

\* no tool function has been invoked for a ToolUse block of the content
NoneInvoked(content) ==
    \A j \in 1..Len(content), c \in 1..Len(calls) :
        content[j].type = "tool_use" => calls[c].id # content[j].id

\* C6: a response with stop reason end_turn ends the run at once: run has
\* returned that response's content as it is, the transcript is the one that
\* was sent with the request, no tool function was invoked for any of its
\* blocks and no request follows.
C6_EndTurnReturnsContent ==
    \A n \in 1..Len(responses) :
        responses[n].stop_reason = "end_turn" =>
            /\ n = Len(responses)
            /\ n = Len(requests)
            /\ pc = "returned"
            /\ result.py = "list"
            /\ result.v = responses[n].content
            /\ messages = requests[n].messages
            /\ NoneInvoked(responses[n].content)

\* after a tool_use round, an end_turn response that holds a ToolUse block
\* naming a registered tool
C6_Witness ==
    /\ Len(responses) = 2
    /\ responses[1].stop_reason = "tool_use"
    /\ responses[2].stop_reason = "end_turn"
    /\ \E j \in 1..Len(responses[2].content) :
        /\ responses[2].content[j].type = "tool_use"
        /\ responses[2].content[j].name \in DOMAIN tool_names
    /\ pc = "returned"

\* C7: a response with stop reason max_tokens makes run append the user
\* message "Your response was cut off. Please continue." without invoking a
\* tool; the next request, if there is one, carries the earlier transcript
\* with that message last; the iteration is counted, so that a max_tokens
\* response followed by an end_turn response takes exactly 2 requests.
C7_MaxTokensNudges ==
    \A n \in 1..Len(responses) :
        responses[n].stop_reason = "max_tokens" =>
            /\ NoneInvoked(responses[n].content)
            /\ i >= n
            /\ n = Len(responses) =>
                /\ pc \in {"loop", "awaiting", "returned", "raised"}
                /\ messages[Len(messages)]
                    = [role |-> "user",
                       content |-> [py |-> "str",
                           v |-> "Your response was cut off. Please continue."]]
                /\ pc = "returned" =>
                    (Len(requests) = max_iterations /\ result = SentinelValue)
            /\ Answered(n) =>
                /\ Len(requests[n + 1].messages) > Len(requests[n].messages)
                /\ SubSeq(requests[n + 1].messages, 1, Len(requests[n].messages))
                    = requests[n].messages
                /\ LastSent(n + 1)
                    = [role |-> "user",
                       content |-> [py |-> "str",
                           v |-> "Your response was cut off. Please continue."]]
            /\ (/\ n = 1
                /\ Len(responses) = 2
                /\ responses[2].stop_reason = "end_turn")
               => (Len(requests) = 2 /\ pc = "returned")

\* a truncated first response that holds a ToolUse block naming a registered
\* tool, then an end_turn response
C7_Witness ==
    /\ Len(responses) = 2
    /\ responses[1].stop_reason = "max_tokens"
    /\ \E j \in 1..Len(responses[1].content) :
        /\ responses[1].content[j].type = "tool_use"
        /\ responses[1].content[j].name \in DOMAIN tool_names
    /\ responses[2].stop_reason = "end_turn"
    /\ Len(requests) = 2
    /\ pc = "returned"

\* C8: run returns "Error: Max iterations reached." exactly when it has issued
\* max_iterations requests and none was answered with end_turn; the sentinel
\* is a returned str, never an exception, and every value returned on
\* end_turn is a list, so the two outcomes differ.
C8_SentinelIffExhausted ==
    LET noEndTurn ==
            \A n \in 1..Len(responses) : responses[n].stop_reason # "end_turn"
        exhausted ==
            /\ Len(requests) = max_iterations
            /\ Len(responses) = max_iterations
            /\ noEndTurn
    IN  /\ pc = "returned" =>
            /\ (result = SentinelValue) <=> exhausted
            /\ ~exhausted => (result.py = "list" /\ result # SentinelValue)
        /\ pc # "returned" => result # SentinelValue
        /\ (pc = "raised" => ~exhausted)

\* the budget of two iterations ran out on a tool_use and an unknown stop
\* reason
C8_Witness ==
    /\ pc = "returned"
    /\ max_iterations = 2
    /\ Len(responses) = 2
    /\ responses[1].stop_reason = "tool_use"
    /\ responses[2].stop_reason = "stop_sequence"
    /\ result = SentinelValue

KnownStopReasons == {"end_turn", "tool_use", "max_tokens"}

\* C9 as stated: after a response whose stop reason is none of end_turn,
\* tool_use and max_tokens, the next request carries the same transcript as
\* the request before it, and the iteration is counted.
C9_Original ==
    \A n \in 1..Len(responses) :
        (responses[n].stop_reason \notin KnownStopReasons /\ Answered(n)) =>
            /\ requests[n + 1].messages = requests[n].messages
            /\ i >= n

\* C9 (amended): after a response whose stop reason is none of end_turn,
\* tool_use and max_tokens, run appends the assistant message holding the
\* response's content and nothing else, invokes no tool, and the next request
\* carries the earlier transcript followed by that one assistant message; the
\* iteration is counted.
C9_UnknownStopReasonAppendsAssistantOnly ==
    \A n \in 1..Len(responses) :
        responses[n].stop_reason \notin KnownStopReasons =>
            /\ NoneInvoked(responses[n].content)
            /\ i >= n
            /\ n = Len(responses) =>
                /\ pc \in {"loop", "awaiting", "returned", "raised"}
                /\ messages = Append(requests[n].messages,
                       [role |-> "assistant",
                        content |-> [py |-> "list", v |-> responses[n].content]])
            /\ Answered(n) =>
                requests[n + 1].messages
                    = Append(requests[n].messages,
                        [role |-> "assistant",
                         content |-> [py |-> "list", v |-> responses[n].content]])

\* a response of stop reason stop_sequence has been followed by a request
C9_Witness ==
    \E n \in 1..Len(responses) :
        /\ responses[n].stop_reason = "stop_sequence"
        /\ Len(responses[n].content) > 0
        /\ Answered(n)

\* C10: an exception leaves run only from a model client call: then the last
\* request has no response and nothing was returned; no request is issued
\* after a request that was not answered; a run that has returned has
\* returned the content of an end_turn response or the sentinel string.
C10_OnlyModelCallFailureRaises ==
    /\ Len(requests) - Len(responses) \in {0, 1}
    /\ pc = "raised" =>
        /\ Len(requests) = Len(responses) + 1
        /\ result = None
    /\ pc = "awaiting" <=> (pc # "raised" /\ Len(requests) = Len(responses) + 1)
    /\ pc = "returned" =>
        \/ result = SentinelValue
        \/ /\ Len(responses) > 0
           /\ responses[Len(responses)].stop_reason = "end_turn"
           /\ result.py = "list"
           /\ result.v = responses[Len(responses)].content

\* the second model call failed, after a round in which a tool function
\* raised and an unknown tool was asked for
C10_Witness ==
    /\ pc = "raised"
    /\ Len(requests) = 2
    /\ Len(responses) = 1
    /\ \E c \in 1..Len(calls) : calls[c].outcome = "raise"
    /\ \E j \in 1..Len(responses[1].content) :
        /\ responses[1].content[j].type = "tool_use"
        /\ responses[1].content[j].name \notin DOMAIN tool_names

\* response number n has been dealt with by run
Processed(n) ==
    n \in 1..Len(responses) /\ (n < Len(responses) \/ pc # "dispatch")

\* the messages run appended to the transcript for response number n
Appended(n) ==
    LET before == requests[n].messages
        after == IF Answered(n) THEN requests[n + 1].messages ELSE messages
    IN  SubSeq(after, Len(before) + 1, Len(after))

\* the message m is a user message holding a list of tool_result blocks
IsToolResultMsg(m) == m.role = "user" /\ m.content.py = "list"

\* C11: run dispatches tools and appends a tool-result user message exactly
\* when the response holds one or more ToolUse blocks: each ToolUse block of
\* such a response gets a tool_result in a user message appended for it, and
\* for a response without ToolUse blocks no tool-result message is appended.
\* (Stated for the responses that do not end the run.)
C11_DispatchIffToolUseBlocks ==
    \A n \in 1..Len(responses) :
        (Processed(n) /\ responses[n].stop_reason # "end_turn") =>
            LET tus == ToolUseBlocks(responses[n].content)
                app == Appended(n)
            IN  /\ \A j \in 1..Len(tus) :
                    \E p \in 1..Len(app) :
                        /\ IsToolResultMsg(app[p])
                        /\ \E k \in 1..Len(app[p].content.v) :
                            app[p].content.v[k].tool_use_id = tus[j].id
                /\ Len(tus) = 0 =>
                    \A p \in 1..Len(app) : ~IsToolResultMsg(app[p])

\* the position of the ToolUse block of identifier id in response number n,
\* 0 when it has none
PositionIn(n, id) ==
    IF \E j \in 1..Len(responses[n].content) :
            /\ responses[n].content[j].type = "tool_use"
            /\ responses[n].content[j].id = id
    THEN CHOOSE j \in 1..Len(responses[n].content) :
            /\ responses[n].content[j].type = "tool_use"
            /\ responses[n].content[j].id = id
    ELSE 0

\* the number of the response that holds the ToolUse block of identifier id,
\* 0 when none does
ResponseOf(id) ==
    IF \E n \in 1..Len(responses) : PositionIn(n, id) > 0
    THEN CHOOSE n \in 1..Len(responses) : PositionIn(n, id) > 0
    ELSE 0

\* the invocations are in the order of the responses and, within a response,
\* in the order of its blocks; no block is invoked twice
CallsInOrder ==
    \A c, d \in 1..Len(calls) :
        c < d =>
            /\ ResponseOf(calls[c].id) > 0
            /\ ResponseOf(calls[c].id) <= ResponseOf(calls[d].id)
            /\ ResponseOf(calls[c].id) = ResponseOf(calls[d].id) =>
                PositionIn(ResponseOf(calls[c].id), calls[c].id)
                    < PositionIn(ResponseOf(calls[d].id), calls[d].id)

\* every ToolUse block of an answered tool_use response that names a key of
\* tool_names has been invoked
AllInvokedBeforeNextRequest ==
    \A n \in 1..Len(responses) :
        (responses[n].stop_reason = "tool_use" /\ Answered(n)) =>
            \A j \in 1..Len(responses[n].content) :
                (/\ responses[n].content[j].type = "tool_use"
                 /\ responses[n].content[j].name \in DOMAIN tool_names)
                => Invoked(responses[n].content[j])

\* a step invokes at most one tool function, for a block of the latest
\* response, while no model request is outstanding, and issues no request
OneCallAtATime ==
    calls' # calls =>
        /\ Len(calls') = Len(calls) + 1
        /\ SubSeq(calls', 1, Len(calls)) = calls
        /\ Len(requests) = Len(responses)
        /\ ResponseOf(calls'[Len(calls')].id) = Len(responses)
        /\ requests' = requests
        /\ responses' = responses

\* a step issues at most one model request, and only when every earlier
\* request has been answered
OneRequestAtATime ==
    requests' # requests =>
        /\ Len(requests') = Len(requests) + 1
        /\ Len(requests) = Len(responses)
        /\ calls' = calls

\* C12: tool functions are invoked one at a time, in the order in which
\* their ToolUse blocks appear in the response; all invocations for response
\* n are made before request n+1 is issued; at most one model request is
\* outstanding at any time.
C12_SequentialDispatch ==
    /\ [](CallsInOrder /\ AllInvokedBeforeNextRequest
          /\ Len(requests) - Len(responses) \in {0, 1})
    /\ [][OneCallAtATime /\ OneRequestAtATime]_vars

\* two tool functions were invoked for the two blocks of one response and
\* the next request has gone out
C12_Witness ==
    /\ Len(calls) = 2
    /\ Len(requests) = 2
    /\ Len(responses) = 1
    /\ calls[1].id = responses[1].content[1].id
    /\ calls[2].id = responses[1].content[2].id

\* the sequence a is a prefix of the sequence b
IsPrefix(a, b) == Len(a) <= Len(b) /\ SubSeq(b, 1, Len(a)) = a

\* C13: the transcript is append-only: the first request carries the single
\* user message given to run, the transcript of every request is a prefix of
\* the transcript of the request after it, and the transcript run holds
\* extends the one it sent last.
C13_TranscriptAppendOnly ==
    /\ Len(requests) >= 1 =>
        requests[1].messages
            = <<[role |-> "user",
                 content |-> [py |-> "str", v |-> "clone the repo"]]>>
    /\ \A n \in 1..Len(requests) :
        /\ n < Len(requests) =>
            IsPrefix(requests[n].messages, requests[n + 1].messages)
        /\ IsPrefix(requests[n].messages, messages)

\* a second request has gone out with a longer transcript than the first
C13_Witness ==
    /\ Len(requests) = 2
    /\ Len(requests[2].messages) = 3
    /\ requests[2].messages[1] = requests[1].messages[1]

\* the schema list of the tools of self.tools, in registration order
RegisteredSchemas ==
    [k \in 1..Len(tools) |->
        [name |-> tools[k].name, description |-> tools[k].description,
         input_schema |-> tools[k].parameters]]

\* C14: every model request of a run carries the same tool schema list, the
\* schemas of the registered tools in registration order, and no step of run
\* changes the tool list or the name-to-tool map.
C14_SchemasFixedRegistryUnchanged ==
    /\ [](\A n \in 1..Len(requests) : requests[n].tools = RegisteredSchemas)
    /\ [][pc # "setup" => (tools' = tools /\ tool_names' = tool_names)]_vars

\* two requests of a run with two tools of different names, after a round
\* in which a tool function was invoked
C14_Witness ==
    /\ Len(requests) = 2
    /\ Len(tools) = 2
    /\ tools[1].name # tools[2].name
    /\ Len(calls) > 0
    /\ requests[2].tools = requests[1].tools

\* C15: in every transcript sent to the model, each ToolUse block of an
\* assistant message is answered by a tool_result block of the same
\* identifier in the user message right after it.
C15_EveryToolUseAnswered ==
    \A n \in 1..Len(requests) :
        LET msgs == requests[n].messages
        IN  \A p \in 1..Len(msgs) :
                (msgs[p].role = "assistant" /\ msgs[p].content.py = "list") =>
                    \A j \in 1..Len(msgs[p].content.v) :
                        msgs[p].content.v[j].type = "tool_use" =>
                            /\ p < Len(msgs)
                            /\ IsToolResultMsg(msgs[p + 1])
                            /\ \E k \in 1..Len(msgs[p + 1].content.v) :
                                /\ msgs[p + 1].content.v[k].type = "tool_result"
                                /\ msgs[p + 1].content.v[k].tool_use_id
                                    = msgs[p].content.v[j].id

\* C16: when every response before request number k had stop reason
\* tool_use or max_tokens, the transcript of request k has exactly 2k-1
\* messages, with roles user, assistant, user, ...: user at the odd places,
\* assistant at the even ones, so that it begins and ends with a user message.
C16_TranscriptAlternates ==
    \A k \in 1..Len(requests) :
        (\A n \in 1..(k - 1) :
            responses[n].stop_reason \in {"tool_use", "max_tokens"}) =>
            /\ Len(requests[k].messages) = 2 * k - 1
            /\ \A p \in 1..Len(requests[k].messages) :
                requests[k].messages[p].role
                    = IF p % 2 = 1 THEN "user" ELSE "assistant"

\* the second request of a run, after a tool_use response
C16_Witness ==
    /\ Len(requests) = 2
    /\ responses[1].stop_reason = "tool_use"
    /\ Len(requests[2].messages) = 3

\* the place in self.tools of the tool registered last under the name nm
LastNamed(nm) ==
    CHOOSE k \in 1..Len(tools) :
        /\ tools[k].name = nm
        /\ \A l \in 1..Len(tools) : tools[l].name = nm => l <= k

\* the name in the ToolUse block of identifier id
NameOf(id) ==
    responses[ResponseOf(id)].content[PositionIn(ResponseOf(id), id)].name

\* C17: with tools registered the entry point's way, the name map holds for
\* every name the tool registered last under it, every invocation runs the
\* function of that tool, and the schema list of every request has one entry
\* per registered tool, so that two tools of one name give two entries of
\* that name.
C17_LaterToolShadowsEarlier ==
    /\ \A k \in 1..Len(tools) :
        /\ tools[k].name \in DOMAIN tool_names
        /\ tool_names[tools[k].name] = tools[LastNamed(tools[k].name)]
    /\ \A c \in 1..Len(calls) :
        calls[c].function = tools[LastNamed(NameOf(calls[c].id))].function
    /\ \A n \in 1..Len(requests) :
        /\ Len(requests[n].tools) = Len(tools)
        /\ \A k \in 1..Len(tools) : requests[n].tools[k].name = tools[k].name

\* two tools named read_file were registered, the schema list sent has two
\* entries of that name, and a ToolUse block naming read_file ran the
\* function of the second and not that of the first
C17_Witness ==
    /\ Len(tools) = 2
    /\ tools[1].name = tools[2].name
    /\ tools[1].function # tools[2].function
    /\ Len(requests) >= 1
    /\ requests[1].tools[1].name = requests[1].tools[2].name
    /\ \E c \in 1..Len(calls) : calls[c].function = tools[2].function
    /\ \A c \in 1..Len(calls) : calls[c].function # tools[1].function

====
